---------------------------- MODULE Spec2Model ----------------------------
(***************************************************************************)
(* A model of hue-cli (src/main.rs): one run of the `hue` command.         *)
(*                                                                         *)
(* The program is a single sequential process.  Its state is the parsed    *)
(* command line, the locals of main and of the running handler, the        *)
(* calls made to the collaborators (huelib, xdg/toml, the clock) in the    *)
(* order they were made, and what was printed.  Every collaborator call    *)
(* may succeed or fail; what it returns is chosen from small sets.         *)
(*                                                                         *)
(* Strings that the program compares (light and group identifiers) are     *)
(* sequences of characters; a digit is modelled by its value, so that      *)
(* String::cmp is the lexicographic order computed by StrLess.             *)
(***************************************************************************)
EXTENDS Naturals, Sequences, FiniteSets

VARIABLES
    args,       \* Args: [subcommand, ip_address, id, name]
    pc,         \* position of the process in main or in a handler
    address,    \* main's `address` (NoAddr until resolved)
    config,     \* main's `config.username` (NoUser until loaded)
    bridge,     \* main's `bridge`: [address, username] (NoBridge until built)
    lights,     \* cmd_all_on/cmd_all_off: the lights the loop has still to visit
    modifier,   \* cmd_all_on/cmd_all_off: the `on` value of `modifier`
    on,         \* cmd_blink: the local `on`
    log,        \* the collaborator calls made so far, in order
    stdout,     \* the lines printed with println!
    table,      \* the rows of the table printed by cmd_list / cmd_list_groups
    exit,       \* "running", "ok" (main returned Ok) or "err" (main returned Err)
    error       \* the error main returned ("" when none)

vars == <<args, pc, address, config, bridge, lights, modifier, on, log,
          stdout, table, exit, error>>

---------------------------------------------------------------------------
(* Bounds of the model *)

\* longest sequence of addresses discovery returns
MaxDisc == 3
\* most lights get_all_lights returns
MaxLights == 3
\* set_light_state calls after which the model stops following the blink loop
MaxBlink == 3

---------------------------------------------------------------------------
(* Values *)

NoAddr == ""
NoUser == ""
NoBridge == [address |-> NoAddr, username |-> NoUser]
NoId == <<>>

\* candidate IpAddr values
Addrs == {"A", "B", "C"}

\* light identifiers: the strings "1", "2", "3" and "10"
LightIds == {<<1>>, <<2>>, <<3>>, <<1, 0>>}

\* const SCAN_SLEEP_TIME: Duration = Duration::from_secs(40)
SCAN_SLEEP_TIME == 40
\* Duration::from_secs(1) in cmd_blink
BLINK_SLEEP_TIME == 1
\* the separator of join(",") in cmd_list_groups
Comma == 44

Subcommand == {"register", "scan", "list", "list-groups", "blink", "name",
               "all-on", "all-off"}

\* the command lines the argument parser accepts
Args == { a \in [subcommand : Subcommand, ip_address : Addrs \cup {NoAddr},
                 id : LightIds \cup {NoId}, name : {"", "desk"}] :
            /\ (a.id # NoId) <=> (a.subcommand \in {"blink", "name"})
            /\ (a.name # "") <=> (a.subcommand = "name") }

\* sequences over S of length at most n
SeqsUpTo(S, n) == UNION { [1..k -> S] : k \in 0..n }

\* sequences without repetition over S, of length at most n
InjSeqs(S, n) ==
    { s \in SeqsUpTo(S, n) : \A i, j \in 1..Len(s) : s[i] = s[j] => i = j }

\* a Light of the bridge: the fields the program reads
Light(i) == [id |-> i,
             name |-> "lamp",
             reachable |-> (i # <<3>>),
             on |-> IF i = <<1>> THEN "Some(true)"
                    ELSE IF i = <<2>> THEN "Some(false)" ELSE "None"]

\* what get_all_lights can return: the bridge's lights in any order
LightLists == { [k \in 1..Len(s) |-> Light(s[k])] : s \in InjSeqs(LightIds, MaxLights) }

\* a Group of the bridge
Group(i) == [id |-> i,
             name |-> "room",
             lights |-> IF i = <<2>> THEN <<<<1>>, <<5>>, <<9>>>> ELSE <<<<3>>>>]

\* what get_all_groups can return
GroupLists == { [k \in 1..Len(s) |-> Group(s[k])] : s \in InjSeqs({<<1>>, <<2>>, <<1, 0>>}, 2) }

\* one collaborator call: the operation, its arguments, its outcome
\* ("pending" while the call has not returned) and the value returned
Call == [op |-> "", addr |-> NoAddr, id |-> NoId, on |-> FALSE,
         res |-> "ok", val |-> <<>>, secs |-> 0]

Results == {"ok", "err"}

---------------------------------------------------------------------------
(* Pure functions *)

\* String::cmp(a, b) = Less: lexicographic on the characters
RECURSIVE StrLess(_, _)
StrLess(a, b) ==
    IF b = <<>> THEN FALSE
    ELSE IF a = <<>> THEN TRUE
    ELSE IF a[1] < b[1] THEN TRUE
    ELSE IF a[1] > b[1] THEN FALSE
    ELSE StrLess(Tail(a), Tail(b))

\* insert x after the last element that does not compare greater (stable)
RECURSIVE Insert(_, _)
Insert(s, x) ==
    IF s = <<>> THEN <<x>>
    ELSE IF StrLess(x.id, s[1].id) THEN <<x>> \o s
    ELSE <<s[1]>> \o Insert(Tail(s), x)

RECURSIVE SortFrom(_, _)
SortFrom(done, rest) ==
    IF rest = <<>> THEN done
    ELSE SortFrom(Insert(done, rest[1]), Tail(rest))

\* a sort that leaves the vector as the collaborator returned it
sort_by_id_unsorted(v) == v

\* v.sort_by(|a, b| a.id.cmp(&b.id)): a stable sort, ascending by id
sort_by_id(v) == SortFrom(<<>>, v)

\* taking the first discovered address instead of the last
pop_first(v) == v[1]

\* Vec::pop on a non-empty vector: its last element
pop(v) == v[Len(v)]

\* group.lights.into_iter().join(",")
RECURSIVE join(_)
join(ids) ==
    IF ids = <<>> THEN <<>>
    ELSE IF Len(ids) = 1 THEN ids[1]
    ELSE ids[1] \o <<Comma>> \o join(Tail(ids))

\* one row of cmd_list's table
light_row(light) ==
    [id |-> light.id,
     name |-> light.name,
     reachable |-> IF light.reachable THEN "yes" ELSE "no",
     on |-> IF light.on = "Some(true)" THEN "yes"
            ELSE IF light.on = "Some(false)" THEN "no" ELSE "-"]

\* one row of cmd_list_groups's table
group_row(group) ==
    [id |-> group.id, name |-> group.name, lights |-> join(group.lights)]

---------------------------------------------------------------------------
(* The process *)

Init ==
    /\ args \in Args
    /\ pc = "resolve"
    /\ address = NoAddr
    /\ config = NoUser
    /\ bridge = NoBridge
    /\ lights = <<>>
    /\ modifier = FALSE
    /\ on = FALSE
    /\ log = <<>>
    /\ stdout = <<>>
    /\ table = <<>>
    /\ exit = "running"
    /\ error = ""

\* main returns Ok(())
ReturnOk ==
    /\ pc' = "done"
    /\ exit' = "ok"
    /\ error' = ""

\* main returns Err(e): the `?` operator or an explicit return
ReturnErr(e) ==
    /\ pc' = "done"
    /\ exit' = "err"
    /\ error' = e

\* the call is appended to the log
Record(c) == log' = Append(log, c)

\* the call in flight returns r
Returned(r) == log' = [log EXCEPT ![Len(log)].res = r]

Pending == log # <<>> /\ log[Len(log)].res = "pending"

\* Some(address) => address
main_ip_given ==
    /\ pc = "resolve"
    /\ args.ip_address # NoAddr
    /\ address' = args.ip_address
    /\ pc' = "register?"
    /\ UNCHANGED <<args, config, bridge, lights, modifier, on, log, stdout,
                   table, exit, error>>

\* discovery that falls back to a default address when nothing is found
main_discover_default ==
    /\ pc = "resolve"
    /\ args.ip_address = NoAddr
    /\ \E r \in Results, found \in SeqsUpTo(Addrs, MaxDisc) :
         IF r = "err"
         THEN /\ Record([Call EXCEPT !.op = "discover_nupnp", !.res = "err"])
              /\ ReturnErr("discover_nupnp failed")
              /\ UNCHANGED address
         ELSE /\ Record([Call EXCEPT !.op = "discover_nupnp", !.val = found])
              /\ address' = IF found = <<>> THEN "A" ELSE pop(found)
              /\ pc' = "register?"
              /\ UNCHANGED <<exit, error>>
    /\ UNCHANGED <<args, config, bridge, lights, modifier, on, stdout, table>>

\* None => discover_nupnp()?, pop().ok_or_else(..)?
main_discover ==
    /\ pc = "resolve"
    /\ args.ip_address = NoAddr
    /\ \E r \in Results, found \in SeqsUpTo(Addrs, MaxDisc) :
         IF r = "err"
         THEN /\ Record([Call EXCEPT !.op = "discover_nupnp", !.res = "err"])
              /\ ReturnErr("discover_nupnp failed")
              /\ UNCHANGED address
         ELSE /\ Record([Call EXCEPT !.op = "discover_nupnp", !.val = found])
              /\ IF found = <<>>
                 THEN /\ ReturnErr("No bridge IP addresses found on the network")
                      /\ UNCHANGED address
                 ELSE /\ address' = pop(found)
                      /\ pc' = "register?"
                      /\ UNCHANGED <<exit, error>>
    /\ UNCHANGED <<args, config, bridge, lights, modifier, on, stdout, table>>

\* registration that reports success whatever register_user returned
main_register_unchecked ==
    /\ pc = "register?"
    /\ args.subcommand = "register"
    /\ \E r \in Results :
         /\ Record([Call EXCEPT !.op = "register_user", !.addr = address, !.res = r])
         /\ stdout' = Append(stdout, "Username: {}")
         /\ ReturnOk
    /\ UNCHANGED <<args, address, config, bridge, lights, modifier, on, table>>

\* if let Subcommand::Register = args.subcommand { register_user(..)?; println!; return Ok(()) }
main_register ==
    /\ pc = "register?"
    /\ args.subcommand = "register"
    /\ \E r \in Results :
         /\ Record([Call EXCEPT !.op = "register_user", !.addr = address, !.res = r])
         /\ IF r = "ok"
            THEN /\ stdout' = Append(stdout, "Username: {}")
                 /\ ReturnOk
            ELSE /\ ReturnErr("register_user failed")
                 /\ UNCHANGED stdout
    /\ UNCHANGED <<args, address, config, bridge, lights, modifier, on, table>>

\* the outcomes of locating, reading and parsing config.toml
ConfigOutcomes == {"xdg_err", "absent", "unreadable", "no_username", "ok"}

ConfigError(o) ==
    IF o = "xdg_err" THEN "xdg base directories failed"
    ELSE IF o = "absent" THEN "no hue config file found in .config/hue"
    ELSE IF o = "unreadable" THEN "failed to read config file"
    ELSE "failed to parse config file"

\* a loader that main reaches in a register run too
main_load_config_any ==
    /\ pc = "register?"
    /\ \E o \in ConfigOutcomes :
         /\ Record([Call EXCEPT !.op = "load_config", !.res = o])
         /\ IF o = "ok"
            THEN /\ config' = "user"
                 /\ pc' = "bridge"
                 /\ UNCHANGED <<exit, error>>
            ELSE /\ ReturnErr(ConfigError(o))
                 /\ UNCHANGED config
    /\ UNCHANGED <<args, address, bridge, lights, modifier, on, stdout, table>>

\* a loader that goes on with a default username when the file gives none
main_load_config_lenient ==
    /\ pc = "register?"
    /\ args.subcommand # "register"
    /\ \E o \in ConfigOutcomes :
         /\ Record([Call EXCEPT !.op = "load_config", !.res = o])
         /\ config' = IF o = "ok" THEN "user" ELSE "anonymous"
         /\ pc' = "bridge"
         /\ UNCHANGED <<exit, error>>
    /\ UNCHANGED <<args, address, bridge, lights, modifier, on, stdout, table>>

\* with_prefix("hue")?, find_config_file(..).ok_or_else(..)?,
\* read_to_string(..).with_context(..)?, toml::from_str(..).with_context(..)?
main_load_config ==
    /\ pc = "register?"
    /\ args.subcommand # "register"
    /\ \E o \in ConfigOutcomes :
         /\ Record([Call EXCEPT !.op = "load_config", !.res = o])
         /\ IF o = "ok"
            THEN /\ config' = "user"
                 /\ pc' = "bridge"
                 /\ UNCHANGED <<exit, error>>
            ELSE /\ ReturnErr(ConfigError(o))
                 /\ UNCHANGED config
    /\ UNCHANGED <<args, address, bridge, lights, modifier, on, stdout, table>>

\* let bridge = Bridge::new(address, &config.username)
main_new_bridge ==
    /\ pc = "bridge"
    /\ bridge' = [address |-> address, username |-> config]
    /\ Record([Call EXCEPT !.op = "Bridge::new", !.addr = address])
    /\ pc' = "dispatch"
    /\ UNCHANGED <<args, address, config, lights, modifier, on, stdout, table,
                   exit, error>>

\* the handler of each arm of `match args.subcommand`
Handler(s) ==
    CASE s = "scan" -> "cmd_scan"
      [] s = "list" -> "cmd_list"
      [] s = "list-groups" -> "cmd_list_groups"
      [] s = "blink" -> "cmd_blink"
      [] s = "name" -> "cmd_name"
      [] s = "all-on" -> "cmd_all_on"
      [] s = "all-off" -> "cmd_all_off"
      [] OTHER -> "none"

\* match args.subcommand { .. }: the call of the arm's handler
main_dispatch ==
    /\ pc = "dispatch"
    /\ IF args.subcommand = "register"
       THEN /\ ReturnErr("Somehow managed to call register after loading config. Should not be possible.")
            /\ UNCHANGED log
       ELSE /\ Record([Call EXCEPT !.op = "handler", !.val = Handler(args.subcommand)])
            /\ pc' = Handler(args.subcommand)
            /\ UNCHANGED <<exit, error>>
    /\ UNCHANGED <<args, address, config, bridge, lights, modifier, on, stdout, table>>

MainNext ==
    \/ main_ip_given
    \/ main_discover
    \/ main_register
    \/ main_load_config
    \/ main_new_bridge
    \/ main_dispatch

---------------------------------------------------------------------------
(* cmd_scan *)

\* a scan that goes on to wait after a failed search_new_lights
cmd_scan_search_unchecked ==
    /\ pc = "cmd_scan"
    /\ \E r \in Results :
         /\ Record([Call EXCEPT !.op = "search_new_lights", !.res = r])
         /\ stdout' = Append(stdout, "Initiated scan. Sleeping for {:?}.")
         /\ pc' = "scan_sleep"
         /\ UNCHANGED <<exit, error>>
    /\ UNCHANGED <<args, address, config, bridge, lights, modifier, on, table>>

\* bridge.search_new_lights(&scanner)?; println!(..)
cmd_scan_search ==
    /\ pc = "cmd_scan"
    /\ \E r \in Results :
         /\ Record([Call EXCEPT !.op = "search_new_lights", !.res = r])
         /\ IF r = "ok"
            THEN /\ stdout' = Append(stdout, "Initiated scan. Sleeping for {:?}.")
                 /\ pc' = "scan_sleep"
                 /\ UNCHANGED <<exit, error>>
            ELSE /\ ReturnErr("search_new_lights failed")
                 /\ UNCHANGED stdout
    /\ UNCHANGED <<args, address, config, bridge, lights, modifier, on, table>>

\* std::thread::sleep(SCAN_SLEEP_TIME)
cmd_scan_sleep ==
    /\ pc = "scan_sleep"
    /\ Record([Call EXCEPT !.op = "sleep", !.secs = SCAN_SLEEP_TIME])
    /\ pc' = "scan_get"
    /\ UNCHANGED <<args, address, config, bridge, lights, modifier, on, stdout,
                   table, exit, error>>

\* bridge.get_new_lights()?; Ok(()): the lights found are dropped
cmd_scan_get ==
    /\ pc = "scan_get"
    /\ \E r \in Results, found \in LightLists :
         IF r = "ok"
         THEN /\ Record([Call EXCEPT !.op = "get_new_lights", !.val = found])
              /\ ReturnOk
         ELSE /\ Record([Call EXCEPT !.op = "get_new_lights", !.res = "err"])
              /\ ReturnErr("get_new_lights failed")
    /\ UNCHANGED <<args, address, config, bridge, lights, modifier, on, stdout, table>>

---------------------------------------------------------------------------
(* cmd_list, cmd_list_groups, cmd_name *)

\* get_all_lights()?, sort_by, one row per light, printstd
cmd_list ==
    /\ pc = "cmd_list"
    /\ \E r \in Results, got \in LightLists :
         IF r = "ok"
         THEN /\ Record([Call EXCEPT !.op = "get_all_lights", !.val = got])
              /\ table' = LET v == sort_by_id(got) IN [k \in 1..Len(v) |-> light_row(v[k])]
              /\ stdout' = Append(stdout, "table")
              /\ ReturnOk
         ELSE /\ Record([Call EXCEPT !.op = "get_all_lights", !.res = "err"])
              /\ ReturnErr("get_all_lights failed")
              /\ UNCHANGED <<table, stdout>>
    /\ UNCHANGED <<args, address, config, bridge, lights, modifier, on>>

\* get_all_groups()?, sort_by, one row per group, printstd
cmd_list_groups ==
    /\ pc = "cmd_list_groups"
    /\ \E r \in Results, got \in GroupLists :
         IF r = "ok"
         THEN /\ Record([Call EXCEPT !.op = "get_all_groups", !.val = got])
              /\ table' = LET v == sort_by_id(got) IN [k \in 1..Len(v) |-> group_row(v[k])]
              /\ stdout' = Append(stdout, "table")
              /\ ReturnOk
         ELSE /\ Record([Call EXCEPT !.op = "get_all_groups", !.res = "err"])
              /\ ReturnErr("get_all_groups failed")
              /\ UNCHANGED <<table, stdout>>
    /\ UNCHANGED <<args, address, config, bridge, lights, modifier, on>>

\* set_light_attribute(id, with_name(name))?; println!(..)
cmd_name ==
    /\ pc = "cmd_name"
    /\ \E r \in Results :
         /\ Record([Call EXCEPT !.op = "set_light_attribute", !.id = args.id, !.res = r])
         /\ IF r = "ok"
            THEN /\ stdout' = Append(stdout, "Set light {} name to \"{}\"")
                 /\ ReturnOk
            ELSE /\ ReturnErr("set_light_attribute failed")
                 /\ UNCHANGED stdout
    /\ UNCHANGED <<args, address, config, bridge, lights, modifier, on, table>>

---------------------------------------------------------------------------
(* cmd_blink *)

\* the set_light_state calls made so far
SetCalls == SelectSeq(log, LAMBDA c : c.op = "set_light_state")

\* println!("Blinking light {}...", id); let mut on = true
cmd_blink_start ==
    /\ pc = "cmd_blink"
    /\ stdout' = Append(stdout, "Blinking light {}...")
    /\ on' = TRUE
    /\ pc' = "blink_call"
    /\ UNCHANGED <<args, address, config, bridge, lights, modifier, log, table,
                   exit, error>>

\* bridge.set_light_state(id.clone(), &modifier) is called
cmd_blink_call ==
    /\ pc = "blink_call"
    /\ Len(SetCalls) < MaxBlink
    /\ Record([Call EXCEPT !.op = "set_light_state", !.id = args.id, !.on = on,
                           !.res = "pending"])
    /\ pc' = "blink_return"
    /\ UNCHANGED <<args, address, config, bridge, lights, modifier, on, stdout,
                   table, exit, error>>

\* a loop that never flips `on`
cmd_blink_return_stuck ==
    /\ pc = "blink_return"
    /\ \E r \in Results :
         /\ Returned(r)
         /\ IF r = "ok"
            THEN /\ pc' = "blink_sleep"
                 /\ UNCHANGED <<on, exit, error>>
            ELSE /\ ReturnErr("set_light_state failed")
                 /\ UNCHANGED on
    /\ UNCHANGED <<args, address, config, bridge, lights, modifier, stdout, table>>

\* the call returns: `?`, then on = if on { false } else { true }
cmd_blink_return ==
    /\ pc = "blink_return"
    /\ \E r \in Results :
         /\ Returned(r)
         /\ IF r = "ok"
            THEN /\ on' = IF on THEN FALSE ELSE TRUE
                 /\ pc' = "blink_sleep"
                 /\ UNCHANGED <<exit, error>>
            ELSE /\ ReturnErr("set_light_state failed")
                 /\ UNCHANGED on
    /\ UNCHANGED <<args, address, config, bridge, lights, modifier, stdout, table>>

\* std::thread::sleep(Duration::from_secs(1)), and back to the top of the loop
cmd_blink_sleep ==
    /\ pc = "blink_sleep"
    /\ Record([Call EXCEPT !.op = "sleep", !.secs = BLINK_SLEEP_TIME])
    /\ pc' = "blink_call"
    /\ UNCHANGED <<args, address, config, bridge, lights, modifier, on, stdout,
                   table, exit, error>>

---------------------------------------------------------------------------
(* cmd_all_on, cmd_all_off *)

\* modifier, get_all_lights()?, sort_by: the part the two handlers share
all_fetch(value) ==
    /\ modifier' = value
    /\ \E r \in Results, got \in LightLists :
         IF r = "ok"
         THEN /\ Record([Call EXCEPT !.op = "get_all_lights", !.val = got])
              /\ lights' = sort_by_id(got)
              /\ pc' = "all_loop"
              /\ UNCHANGED <<exit, error>>
         ELSE /\ Record([Call EXCEPT !.op = "get_all_lights", !.res = "err"])
              /\ ReturnErr("get_all_lights failed")
              /\ UNCHANGED lights
    /\ UNCHANGED <<args, address, config, bridge, on, stdout, table>>

\* cmd_all_on: with_on(true), get_all_lights()?, sort_by
cmd_all_on_fetch ==
    /\ pc = "cmd_all_on"
    /\ all_fetch(TRUE)

\* cmd_all_off with cmd_all_on's modifier
cmd_all_off_fetch_on ==
    /\ pc = "cmd_all_off"
    /\ all_fetch(TRUE)

\* cmd_all_off: with_on(false), get_all_lights()?, sort_by
cmd_all_off_fetch ==
    /\ pc = "cmd_all_off"
    /\ all_fetch(FALSE)

\* for light in lights: bridge.set_light_state(light.id, &modifier) is called
all_call ==
    /\ pc = "all_loop"
    /\ lights # <<>>
    /\ Record([Call EXCEPT !.op = "set_light_state", !.id = lights[1].id,
                           !.on = modifier, !.res = "pending"])
    /\ lights' = Tail(lights)
    /\ pc' = "all_return"
    /\ UNCHANGED <<args, address, config, bridge, modifier, on, stdout, table,
                   exit, error>>

\* a loop that goes on to the next light after a failed call
all_return_continue ==
    /\ pc = "all_return"
    /\ \E r \in Results :
         /\ Returned(r)
         /\ pc' = "all_loop"
         /\ UNCHANGED <<exit, error>>
    /\ UNCHANGED <<args, address, config, bridge, lights, modifier, on, stdout, table>>

\* the call returns: `?` leaves the handler on an error
all_return ==
    /\ pc = "all_return"
    /\ \E r \in Results :
         /\ Returned(r)
         /\ IF r = "ok"
            THEN /\ pc' = "all_loop"
                 /\ UNCHANGED <<exit, error>>
            ELSE ReturnErr("set_light_state failed")
    /\ UNCHANGED <<args, address, config, bridge, lights, modifier, on, stdout, table>>

\* the loop is over: Ok(())
all_done ==
    /\ pc = "all_loop"
    /\ lights = <<>>
    /\ ReturnOk
    /\ UNCHANGED <<args, address, config, bridge, lights, modifier, on, log,
                   stdout, table>>

HandlerNext ==
    \/ cmd_scan_search
    \/ cmd_scan_sleep
    \/ cmd_scan_get
    \/ cmd_list
    \/ cmd_list_groups
    \/ cmd_name
    \/ cmd_blink_start
    \/ cmd_blink_call
    \/ cmd_blink_return
    \/ cmd_blink_sleep
    \/ cmd_all_on_fetch
    \/ cmd_all_off_fetch
    \/ all_call
    \/ all_return
    \/ all_done

Next == MainNext \/ HandlerNext

Spec == Init /\ [][Next]_vars

---------------------------------------------------------------------------
(* What the properties below read from the log *)

\* the positions of the calls of one operation
At(op) == { k \in 1..Len(log) : log[k].op = op }

\* the operations called, in order
Ops(l) == [k \in 1..Len(l) |-> l[k].op]

\* the identifiers of a sequence of lights, rows or calls, in order
IdsOf(v) == [k \in 1..Len(v) |-> v[k].id]

IsPrefix(a, b) == Len(a) <= Len(b) /\ a = SubSeq(b, 1, Len(a))

\* strictly ascending in String's order
Ascending(ids) == \A j, k \in 1..Len(ids) : j < k => StrLess(ids[j], ids[k])

\* the same elements, each as many times
Permutation(a, b) ==
    /\ Len(a) = Len(b)
    /\ \A x \in {a[k] : k \in 1..Len(a)} \cup {b[k] : k \in 1..Len(b)} :
         Cardinality({k \in 1..Len(a) : a[k] = x})
           = Cardinality({k \in 1..Len(b) : b[k] = x})

\* the operations of a Bridge session
BridgeOps == {"search_new_lights", "get_new_lights", "get_all_lights",
              "get_all_groups", "set_light_state", "set_light_attribute"}

\* the calls made by the handler: what follows the dispatch
HandlerLog ==
    IF At("handler") = {} THEN <<>>
    ELSE LET h == CHOOSE k \in At("handler") : TRUE
         IN  SubSeq(log, h + 1, Len(log))

IsAll == args.subcommand \in {"all-on", "all-off"}

\* the successful get_all_lights calls
Fetched == SelectSeq(log, LAMBDA c : c.op = "get_all_lights" /\ c.res = "ok")

---------------------------------------------------------------------------
(* C1 *)

\* C1: in an all-on or all-off run every set_light_state call carries the
\* handler's value (true for all-on, false for all-off) and the identifier of
\* a fetched light, the calls are in strictly ascending identifier order
\* whatever order get_all_lights returned, no call is issued while another
\* has not returned, and when the run succeeds there is exactly one
\* successful call per fetched light.
C1_AllCallsOnePerLightAscending ==
    IsAll =>
      /\ Len(Fetched) <= 1
      /\ SetCalls # <<>> => Len(Fetched) = 1
      /\ \A k \in 1..Len(SetCalls) :
           /\ SetCalls[k].on = (args.subcommand = "all-on")
           /\ \E m \in 1..Len(Fetched[1].val) : Fetched[1].val[m].id = SetCalls[k].id
      /\ Ascending(IdsOf(SetCalls))
      /\ \A k \in 1..Len(log) : log[k].res = "pending" => k = Len(log)
      /\ exit = "ok" =>
           /\ Len(Fetched) = 1
           /\ Permutation(IdsOf(SetCalls), IdsOf(Fetched[1].val))
           /\ \A k \in 1..Len(SetCalls) : SetCalls[k].res = "ok"

\* an all-off run that succeeded on lights returned as "3", "10", "2"
C1_Witness ==
    /\ args.subcommand = "all-off"
    /\ exit = "ok"
    /\ Len(Fetched) = 1
    /\ IdsOf(Fetched[1].val) = <<<<3>>, <<1, 0>>, <<2>>>>
    /\ IdsOf(SetCalls) = <<<<1, 0>>, <<2>>, <<3>>>>

---------------------------------------------------------------------------
(* C2 *)

\* C2: in an all-on or all-off run a failed set_light_state call is the last
\* call of the run, which has ended with an error; the calls before it
\* succeeded, each for another light and with the handler's value, so that
\* nothing is retried, nothing is undone and no later light is visited.
C2_AllAbortsAtFirstFailure ==
    IsAll =>
      \A k \in 1..Len(log) :
        (log[k].op = "set_light_state" /\ log[k].res = "err") =>
          /\ k = Len(log)
          /\ pc = "done"
          /\ exit = "err"
          /\ \A j \in 1..(k - 1) :
               log[j].op = "set_light_state" =>
                 /\ log[j].res = "ok"
                 /\ log[j].on = (args.subcommand = "all-on")
                 /\ log[j].id # log[k].id
                 /\ \A i \in 1..(j - 1) :
                      log[i].op = "set_light_state" => log[i].id # log[j].id

\* the call for the second of three lights failed
C2_Witness ==
    /\ IsAll
    /\ Len(SetCalls) = 2
    /\ SetCalls[1].res = "ok"
    /\ SetCalls[2].res = "err"
    /\ Len(lights) = 1
    /\ pc = "done"

---------------------------------------------------------------------------
(* C3 *)

\* C3 as stated: a finished register run never read the configuration, and
\* it succeeded exactly when register_user succeeded and failed exactly
\* when register_user failed.
C3_RegisterDecidedByRegistrationAlone ==
    (args.subcommand = "register" /\ pc = "done") =>
      /\ At("load_config") = {}
      /\ exit = "ok" <=> \E k \in At("register_user") : log[k].res = "ok"
      /\ exit = "err" <=> \E k \in At("register_user") : log[k].res = "err"

\* C3 amended: a register run never reads the configuration and builds no
\* session; it calls register_user at most once; it succeeds exactly when
\* register_user succeeded, and it fails exactly when register_user failed
\* or when, no address being given, discovery failed or found nothing, in
\* which case register_user is not called.
C3_RegisterDecidedByResolveAndRegistration ==
    args.subcommand = "register" =>
      /\ At("load_config") = {}
      /\ At("Bridge::new") = {}
      /\ At("handler") = {}
      /\ Cardinality(At("register_user")) <= 1
      /\ pc = "done" =>
           /\ exit = "ok" <=> \E k \in At("register_user") : log[k].res = "ok"
           /\ exit = "err" <=>
                \/ \E k \in At("register_user") : log[k].res = "err"
                \/ /\ At("register_user") = {}
                   /\ args.ip_address = NoAddr
                   /\ Ops(log) = <<"discover_nupnp">>
                   /\ log[1].res = "err" \/ log[1].val = <<>>

\* a register run that discovered the bridge and registered
C3_Witness ==
    /\ args.subcommand = "register"
    /\ args.ip_address = NoAddr
    /\ pc = "done"
    /\ exit = "ok"
    /\ Ops(log) = <<"discover_nupnp", "register_user">>

---------------------------------------------------------------------------
(* C4 *)

\* C4: when the configuration file is absent or has no username, the run
\* (not a register run) ends there with an error: no session is built, no
\* handler runs and no operation of the bridge is called.
C4_ConfigFailureStopsBeforeBridge ==
    \A k \in 1..Len(log) :
      (log[k].op = "load_config" /\ log[k].res \in {"absent", "no_username"}) =>
        /\ args.subcommand # "register"
        /\ k = Len(log)
        /\ pc = "done"
        /\ exit = "err"
        /\ bridge = NoBridge
        /\ \A j \in 1..Len(log) :
             log[j].op \notin BridgeOps \cup {"Bridge::new", "handler", "register_user"}

\* an all-on run whose configuration file has no username
C4_Witness ==
    /\ args.subcommand = "all-on"
    /\ log # <<>>
    /\ log[Len(log)].op = "load_config"
    /\ log[Len(log)].res = "no_username"
    /\ pc = "done"

---------------------------------------------------------------------------
(* C5 *)

\* C5: when no address is given and discovery returns the empty sequence,
\* the run ends with the "no bridge" error and discovery is its only call,
\* whatever the subcommand.
C5_EmptyDiscoveryStops ==
    \A k \in 1..Len(log) :
      (log[k].op = "discover_nupnp" /\ log[k].res = "ok" /\ log[k].val = <<>>) =>
        /\ args.ip_address = NoAddr
        /\ Len(log) = 1
        /\ pc = "done"
        /\ exit = "err"
        /\ error = "No bridge IP addresses found on the network"
        /\ address = NoAddr
        /\ config = NoUser
        /\ bridge = NoBridge

\* a list run whose discovery found nothing
C5_Witness ==
    /\ args.subcommand = "list"
    /\ Len(log) = 1
    /\ log[1].op = "discover_nupnp"
    /\ log[1].res = "ok"
    /\ log[1].val = <<>>
    /\ exit = "err"

---------------------------------------------------------------------------
(* C6 *)

\* C6: with an address on the command line discovery is never called and
\* that address is the one registration and the session use; without one
\* they use the last element of the sequence discovery returned.
C6_AddressIsGivenOrLastDiscovered ==
    /\ args.ip_address # NoAddr =>
         /\ At("discover_nupnp") = {}
         /\ pc # "resolve" => address = args.ip_address
    /\ (args.ip_address = NoAddr /\ address # NoAddr) =>
         /\ log[1].op = "discover_nupnp"
         /\ log[1].val # <<>>
         /\ address = log[1].val[Len(log[1].val)]
    /\ \A k \in 1..Len(log) :
         log[k].op \in {"register_user", "Bridge::new"} =>
           /\ log[k].addr # NoAddr
           /\ log[k].addr = address
    /\ bridge # NoBridge => bridge.address = address

\* discovery returned [A, B, C] and the session is built on C
C6_Witness ==
    /\ log # <<>>
    /\ log[1].op = "discover_nupnp"
    /\ log[1].val = <<"A", "B", "C">>
    /\ bridge.address = "C"

---------------------------------------------------------------------------
(* C7 *)

\* C7: the rows list prints are the fetched lights, one row for each, in
\* strictly ascending identifier order; lights returned as "3", "1", "2"
\* are printed as "1", "2", "3".
C7_ListRowsSortedPermutation ==
    (args.subcommand = "list" /\ Len(Fetched) > 0) =>
      LET got == Fetched[1].val
      IN  /\ Permutation(table, [k \in 1..Len(got) |-> light_row(got[k])])
          /\ Ascending(IdsOf(table))
          /\ IdsOf(got) = <<<<3>>, <<1>>, <<2>>>> =>
               IdsOf(table) = <<<<1>>, <<2>>, <<3>>>>

\* list on lights returned as "3", "1", "2"
C7_Witness ==
    /\ args.subcommand = "list"
    /\ Len(Fetched) = 1
    /\ IdsOf(Fetched[1].val) = <<<<3>>, <<1>>, <<2>>>>
    /\ IdsOf(table) = <<<<1>>, <<2>>, <<3>>>>
    /\ exit = "ok"

---------------------------------------------------------------------------
(* C8 *)

\* the steps of main among the calls
MainOps == {"discover_nupnp", "register_user", "load_config", "Bridge::new", "handler"}

\* C8 as stated: in a run that is not a register run the configuration is
\* loaded before the address is resolved, so discovery is never called
\* before a successful load; then the session is built and one handler
\* called; a register run has no configuration or session step.
C8_ConfigBeforeResolve ==
    IF args.subcommand = "register"
    THEN At("load_config") \cup At("Bridge::new") \cup At("handler") = {}
    ELSE /\ \A k \in At("discover_nupnp") :
              \E j \in 1..(k - 1) : log[j].op = "load_config" /\ log[j].res = "ok"
         /\ address # NoAddr => \E j \in At("load_config") : log[j].res = "ok"
         /\ \A k \in At("Bridge::new") : \E j \in 1..(k - 1) : log[j].op = "load_config"
         /\ \A k \in At("handler") : \E j \in 1..(k - 1) : log[j].op = "Bridge::new"
         /\ Cardinality(At("handler")) <= 1

\* what main does, in order, for the command line
MainOrder ==
    (IF args.ip_address = NoAddr THEN <<"discover_nupnp">> ELSE <<>>) \o
    (IF args.subcommand = "register" THEN <<"register_user">>
     ELSE <<"load_config", "Bridge::new", "handler">>)

\* C8 amended: in a run that is not a register run the steps are: resolve
\* the address (the argument, or discovery), then load the configuration,
\* then build the session, then call exactly one handler, that of the
\* subcommand, and every bridge operation follows these; discovery, when it
\* is called, is the first call and precedes the load of the configuration.
\* A register run resolves the address and registers, with no configuration
\* or session step.
C8_ResolveBeforeConfig ==
    /\ IsPrefix(Ops(SubSeq(log, 1, IF Len(log) < Len(MainOrder) THEN Len(log)
                                   ELSE Len(MainOrder))), MainOrder)
    /\ \A k \in 1..Len(log) :
         /\ log[k].op \in MainOps => k <= Len(MainOrder)
         /\ log[k].op = "load_config" => address # NoAddr /\ args.subcommand # "register"
         /\ log[k].op = "handler" =>
              /\ log[k - 1].op = "Bridge::new"
              /\ log[k - 2].op = "load_config" /\ log[k - 2].res = "ok"
              /\ log[k].val \in {"cmd_scan", "cmd_list", "cmd_list_groups", "cmd_blink",
                                 "cmd_name", "cmd_all_on", "cmd_all_off"}
    /\ pc \in {"cmd_scan", "cmd_list", "cmd_list_groups", "cmd_blink", "cmd_name",
               "cmd_all_on", "cmd_all_off"} =>
         /\ Ops(log) = MainOrder
         /\ log[Len(log)].val = pc
         /\ bridge = [address |-> address, username |-> config]

\* discovery, the configuration, the session, the handler and its first call
C8_Witness ==
    /\ args.subcommand = "name"
    /\ Ops(log) = <<"discover_nupnp", "load_config", "Bridge::new", "handler",
                    "set_light_attribute">>
    /\ exit = "ok"

---------------------------------------------------------------------------
(* C9 *)

BlinkPcs == {"blink_call", "blink_return", "blink_sleep"}

\* C9: a blink run never ends successfully.  The handler's calls, after the
\* dispatch, are set_light_state, sleep, set_light_state, sleep, ..., each
\* set_light_state for the given light, the first with on = true and each
\* next with the negation of the one before, each sleep of 1 second, and no
\* call reads the lights.  A failed set_light_state is the last call and
\* ends the run with an error; the run ends in no other way once the
\* handler runs, and inside the loop a next step is always possible (in the
\* model, until MaxBlink calls have been made).
C9_BlinkAlternatesUntilFailure ==
    args.subcommand = "blink" =>
      /\ exit # "ok"
      /\ \A k \in 1..Len(HandlerLog) :
           IF k % 2 = 1
           THEN /\ HandlerLog[k].op = "set_light_state"
                /\ HandlerLog[k].id = args.id
                /\ HandlerLog[k].on = (((k + 1) \div 2) % 2 = 1)
                /\ HandlerLog[k].res = "ok" \/ k = Len(HandlerLog)
           ELSE /\ HandlerLog[k].op = "sleep"
                /\ HandlerLog[k].secs = 1
      /\ \A k \in 1..Len(SetCalls) :
           SetCalls[k].res = "err" => (k = Len(SetCalls) /\ pc = "done" /\ exit = "err")
      /\ (pc = "done" /\ At("handler") # {}) =>
           /\ exit = "err"
           /\ log[Len(log)].op = "set_light_state"
           /\ log[Len(log)].res = "err"
      /\ (pc \in BlinkPcs /\ Len(SetCalls) < MaxBlink) => ENABLED Next

\* three calls went through: on, off, on
C9_Witness ==
    /\ args.subcommand = "blink"
    /\ Len(SetCalls) = 3
    /\ \A k \in 1..3 : SetCalls[k].res = "ok"
    /\ SetCalls[1].on /\ ~SetCalls[2].on /\ SetCalls[3].on
    /\ pc = "blink_sleep"

---------------------------------------------------------------------------
(* C10 *)

\* C10: the calls of the scan handler are, in order, search_new_lights, one
\* sleep of 40 seconds, one get_new_lights; a failed search_new_lights ends
\* the run with an error with no sleep and no get_new_lights; the run
\* succeeds exactly when both calls succeeded, and what get_new_lights
\* returned is not printed.
C10_ScanSearchSleepGet ==
    args.subcommand = "scan" =>
      /\ IsPrefix(Ops(HandlerLog), <<"search_new_lights", "sleep", "get_new_lights">>)
      /\ \A k \in At("sleep") : log[k].secs = 40 /\ log[k - 1].res = "ok"
      /\ \A k \in At("search_new_lights") :
           log[k].res = "err" => (k = Len(log) /\ pc = "done" /\ exit = "err")
      /\ exit = "ok" <=>
           /\ \E k \in At("search_new_lights") : log[k].res = "ok"
           /\ \E k \in At("get_new_lights") : log[k].res = "ok"
      /\ table = <<>>
      /\ \A k \in 1..Len(stdout) : stdout[k] = "Initiated scan. Sleeping for {:?}."

\* a scan that found lights and printed none
C10_Witness ==
    /\ args.subcommand = "scan"
    /\ exit = "ok"
    /\ Len(HandlerLog) = 3
    /\ Len(HandlerLog[3].val) = 2
    /\ table = <<>>

=============================================================================
